---- MODULE Spec2Model ----
(***************************************************************************)
(* Model of bin/lib/getOptions.js: the resolution of the run configuration *)
(* of the CLI from the raw flags, the environment's default project token  *)
(* and the scripts of package.json.                                        *)
(*                                                                         *)
(* JavaScript values are tagged records.  A string is a sequence of        *)
(* lexemes (the empty string is the empty sequence), so that splitting,    *)
(* concatenation, startsWith/endsWith and URL parsing are computed and not *)
(* assumed.  A property missing from an object reads as Undefined.         *)
(***************************************************************************)
EXTENDS Integers, Sequences, FiniteSets, TLC

VARIABLES
  flags,        \* the raw flag mapping handed to getOptions
  envToken,     \* CHROMATIC_PROJECT_TOKEN
  packageJson,  \* what readFileSync('./package.json') returned to the call
  normalized,   \* the options object the call built from the flags
  outcome,      \* what the call of getOptions ended in: a return or a throw
  fed,          \* the url of an earlier result given back as --storybook-url
  pc            \* "flags" | "done" | "refed"

vars == <<flags, envToken, packageJson, normalized, outcome, fed, pc>>

---------------------------------------------------------------------------
(* Bounds of the model *)

\* how many flags one invocation sets
MaxFlags == 4

---------------------------------------------------------------------------
(* JavaScript values *)

Undefined == [t |-> "undefined"]
Null == [t |-> "null"]
Str(s) == [t |-> "string", s |-> s]
Bool(b) == [t |-> "boolean", b |-> b]
Arr(a) == [t |-> "array", a |-> a]

\* ToBoolean: what `!x`, `!!x`, `x && y`, `x || y` and `if (x)` test
Truthy(v) ==
  CASE v.t = "undefined" -> FALSE
    [] v.t = "null" -> FALSE
    [] v.t = "string" -> v.s # <<>>
    [] v.t = "boolean" -> v.b
    [] OTHER -> TRUE

\* a || b
Or(a, b) == IF Truthy(a) THEN a ELSE b

\* a && b
And(a, b) == IF Truthy(a) THEN b ELSE a

\* x === '' ? true : x
EmptyToTrue(x) == IF x = Str(<<>>) THEN Bool(TRUE) ELSE x

\* typeof x === 'string'
IsString(x) == x.t = "string"

---------------------------------------------------------------------------
(* Helpers of the module *)

takeLast(input) ==
  IF input.t = "array"
    THEN IF Len(input.a) = 0 THEN Undefined ELSE input.a[Len(input.a)]
    ELSE input

\* process.env.HOME
HOME == "/home/user"

\* path.join(process.env.HOME, filepath.slice(1)) when filepath starts with '~'
resolveHomeDir(filepath) ==
  IF Truthy(filepath) /\ IsString(filepath) /\ filepath.s[1] = "~"
    THEN Str(<<HOME>> \o Tail(filepath.s))
    ELSE filepath

\* String.prototype.split(sep) on a sequence of lexemes
RECURSIVE split(_, _)
split(s, sep) ==
  IF \A i \in 1..Len(s) : s[i] # sep
    THEN <<s>>
    ELSE LET i == CHOOSE k \in 1..Len(s) :
                    s[k] = sep /\ \A j \in 1..(k - 1) : s[j] # sep
         IN  <<SubSeq(s, 1, i - 1)>> \o split(SubSeq(s, i + 1, Len(s)), sep)

\* (flags.patchBuild || '').split('...').filter(Boolean)
patchRefs(fl) ==
  LET raw == Or(fl.patchBuild, Str(<<>>))
  IN  SelectSeq(split(raw.s, "..."), LAMBDA part : part # <<>>)

\* path.resolve(p): an absolute path is kept, a relative one is put under the cwd
pathResolve(p) ==
  IF Len(p) > 0 /\ p[1] = "/" THEN p ELSE <<"/cwd", "/">> \o p

---------------------------------------------------------------------------
(* The legacy URL API of Node.js, on sequences of lexemes.  The lexemes of  *)
(* a URL are a protocol with its colon, "//", the lexemes of the host, "/"  *)
(* and the segments of the path, and a search part with its question mark.  *)

\* what protocolPattern matches at the start of a URL
ProtocolLexemes == {"http:", "https:", "HTTP:"}

\* lexemes that begin with '?'
SearchLexemes == {"?x"}

\* String.prototype.toLowerCase on one lexeme
toLowerCase(lexeme) ==
  CASE lexeme = "HTTP:" -> "http:"
    [] lexeme = "LOCALHOST" -> "localhost"
    [] OTHER -> lexeme

\* the first index of s holding a lexeme of set, Len(s) + 1 when there is none
FirstIndex(s, set) ==
  IF \E i \in 1..Len(s) : s[i] \in set
    THEN CHOOSE i \in 1..Len(s) : s[i] \in set /\ \A j \in 1..(i - 1) : s[j] \notin set
    ELSE Len(s) + 1

\* url.parse(u) of a string u.  Every protocol of the lexicon is a slashed
\* protocol (http, https), so a host is read exactly after "//".
parse(u) ==
  LET hasProto == Len(u) > 0 /\ u[1] \in ProtocolLexemes
      rest1 == IF hasProto THEN Tail(u) ELSE u
      slashes == hasProto /\ Len(rest1) > 0 /\ rest1[1] = "//"
      rest2 == IF slashes THEN Tail(rest1) ELSE rest1
      hostEnd == IF slashes THEN FirstIndex(rest2, {"/"} \cup SearchLexemes) ELSE 1
      hostLex == SubSeq(rest2, 1, hostEnd - 1)
      rest3 == SubSeq(rest2, hostEnd, Len(rest2))
      searchAt == FirstIndex(rest3, SearchLexemes)
      path == SubSeq(rest3, 1, searchAt - 1)
      search == SubSeq(rest3, searchAt, Len(rest3))
  IN  [ protocol |-> IF hasProto THEN Str(<<toLowerCase(u[1])>>) ELSE Null,
        slashes |-> IF slashes THEN Bool(TRUE) ELSE Null,
        host |-> IF hostLex # <<>>
                   THEN Str([i \in 1..Len(hostLex) |-> toLowerCase(hostLex[i])])
                   ELSE Null,
        pathname |-> IF path # <<>> THEN Str(path)
                     ELSE IF hasProto /\ hostLex # <<>> THEN Str(<<"/">>)
                     ELSE Null,
        search |-> IF search # <<>> THEN Str(search) ELSE Null ]

\* Url.prototype.format(): protocol + '//' + host + pathname + search
format(parsedUrl) ==
  LET protocol == Or(parsedUrl.protocol, Str(<<>>)).s
      pathname == Or(parsedUrl.pathname, Str(<<>>)).s
      search == Or(parsedUrl.search, Str(<<>>)).s
      withHost == Truthy(parsedUrl.slashes) \/ parsedUrl.host # Null
      host == IF withHost THEN <<"//">> \o Or(parsedUrl.host, Str(<<>>)).s ELSE <<>>
      path == IF withHost /\ pathname # <<>> /\ pathname[1] # "/"
                THEN <<"/">> \o pathname ELSE pathname
  IN  Str(protocol \o host \o path \o search)

---------------------------------------------------------------------------
(* Reading the switches of a Storybook command line.  A command is a        *)
(* string whose lexemes are its words; a word is itself a string.           *)

\* the longName of a call that passes none
NoName == "undefined"

\* getStorybookConfiguration(script, shortName, longName): the word that
\* follows the switch; true for a switch that ends the command (its presence
\* is what counts); null when the switch is not there
getStorybookConfiguration(storybookScript, shortName, longName) ==
  LET parts == storybookScript.s
      at == FirstIndex(parts, {<<shortName>>, <<longName>>})
  IN  IF at > Len(parts) THEN Null
      ELSE IF at < Len(parts) THEN Str(parts[at + 1])
      ELSE Bool(TRUE)

---------------------------------------------------------------------------
(* getOptions *)

\* the elements of a sequence
Elements(s) == {s[i] : i \in 1..Len(s)}

\* how a call ends
Return(value) == [kind |-> "return", value |-> value]
Throw(error, arg) == [kind |-> "throw", error |-> error, arg |-> arg]
NoError == [kind |-> "none"]

\* the options object built from the flags; url is the property the final
\* return adds (missing, so undefined, until then)
options(fl, env) ==
  LET refs == patchRefs(fl)
  IN  [ projectToken |-> Or(takeLast(Or(fl.projectToken, fl.appCode)), env),
        exitOnceUploaded |-> EmptyToTrue(fl.exitOnceUploaded),
        buildScriptName |-> fl.buildScriptName,
        scriptName |-> EmptyToTrue(fl.scriptName),
        exec |-> fl.exec,
        noStart |-> Bool(Truthy(fl.doNotStart)),
        https |-> fl.storybookHttps,
        cert |-> fl.storybookCert,
        key |-> fl.storybookKey,
        ca |-> fl.storybookCa,
        port |-> fl.storybookPort,
        storybookUrl |-> EmptyToTrue(fl.storybookUrl),
        storybookBuildDir |->
          IF Truthy(fl.storybookBuildDir)
            THEN Str(pathResolve(IF fl.storybookBuildDir.t = "array"
                                   THEN fl.storybookBuildDir.a[1].s
                                   ELSE fl.storybookBuildDir.s))
            ELSE Undefined,
        patchHeadRef |-> IF Len(refs) >= 1 THEN Str(refs[1]) ELSE Undefined,
        patchBaseRef |-> IF Len(refs) >= 2 THEN Str(refs[2]) ELSE Undefined,
        url |-> Undefined ]

\* if (!options.projectToken) throw
checkProjectToken(opts) ==
  IF ~Truthy(opts.projectToken) THEN Throw("MissingProjectToken", Undefined) ELSE NoError

\* if (flags.patchBuild) { ... }
checkPatchBuild(fl, opts) ==
  IF ~Truthy(fl.patchBuild) THEN NoError
  ELSE IF ~Truthy(opts.patchHeadRef) \/ ~Truthy(opts.patchBaseRef)
    THEN Throw("InvalidPatchBuild", Undefined)
  ELSE IF opts.patchHeadRef = opts.patchBaseRef
    THEN Throw("DuplicatePatchBuild", Undefined)
  ELSE NoError

\* Object.keys(singularOpts)
singularOptNames == <<"buildScriptName", "scriptName", "exec", "storybookUrl", "storybookBuildDir">>

singularOpts ==
  [ buildScriptName |-> "--build-script-name",
    scriptName |-> "--script-name",
    exec |-> "--exec",
    storybookUrl |-> "--storybook-url",
    storybookBuildDir |-> "--storybook-build-dir" ]

\* foundSingularOpts that stops at the first conflicting pair
foundSingularOpts_FirstPair(opts) ==
  LET found == SelectSeq(singularOptNames, LAMBDA name : Truthy(opts[name]))
  IN  IF Len(found) > 2 THEN SubSeq(found, 1, 2) ELSE found

foundSingularOpts(opts) ==
  SelectSeq(singularOptNames, LAMBDA name : Truthy(opts[name]))

\* checkSingularOpts that lets a pair of selectors through
checkSingularOpts_AllowPair(opts) ==
  LET found == foundSingularOpts(opts)
  IN  IF Len(found) > 2
        THEN Throw("InvalidSingularOptions",
                   Arr([i \in 1..Len(found) |-> singularOpts[found[i]]]))
        ELSE NoError

\* if (foundSingularOpts.length > 1) throw
checkSingularOpts(opts) ==
  LET found == foundSingularOpts(opts)
  IN  IF Len(found) > 1
        THEN Throw("InvalidSingularOptions",
                   Arr([i \in 1..Len(found) |-> singularOpts[found[i]]]))
        ELSE NoError

\* noStart once `if (storybookUrl) noStart = true` has run
noStartAfterUrl(opts) ==
  IF Truthy(opts.storybookUrl) THEN Bool(TRUE) ELSE opts.noStart

\* checkExitOnceUploaded without the scriptName check
checkExitOnceUploaded_NoStartOnly(opts) ==
  IF Truthy(noStartAfterUrl(opts)) /\ Truthy(opts.exitOnceUploaded)
    THEN Throw("InvalidExitOnceUploaded", Undefined)
  ELSE NoError

\* the two exitOnceUploaded checks
checkExitOnceUploaded(opts) ==
  IF Truthy(noStartAfterUrl(opts)) /\ Truthy(opts.exitOnceUploaded)
    THEN Throw("InvalidExitOnceUploaded", Undefined)
  ELSE IF Truthy(opts.scriptName) /\ Truthy(opts.exitOnceUploaded)
    THEN Throw("InvalidExitOnceUploaded", Undefined)
  ELSE NoError

\* validate with the selectors checked before patchBuild
validate_SelectorsFirst(fl, opts) ==
  LET checks == << checkProjectToken(opts), checkSingularOpts(opts),
                   checkPatchBuild(fl, opts), checkExitOnceUploaded(opts) >>
      at == FirstIndex(checks, {c \in Elements(checks) : c # NoError})
  IN  IF at > Len(checks) THEN NoError ELSE checks[at]

\* the first of the checks, in the order of the code, that throws
validate(fl, opts) ==
  LET checks == << checkProjectToken(opts), checkPatchBuild(fl, opts),
                   checkSingularOpts(opts), checkExitOnceUploaded(opts) >>
      at == FirstIndex(checks, {c \in Elements(checks) : c # NoError})
  IN  IF at > Len(checks) THEN NoError ELSE checks[at]

\* packageJson.scripts && packageJson.scripts[name]
scriptOf(pkg, name) ==
  IF ~Truthy(pkg.scripts) THEN pkg.scripts
  ELSE IF name.s \in DOMAIN pkg.scripts.m THEN pkg.scripts.m[name.s]
  ELSE Undefined

\* let https = options.https && { cert, key, ca }
callerHttps(opts) ==
  And(opts.https, [t |-> "object", cert |-> opts.cert, key |-> opts.key, ca |-> opts.ca])

\* if (!scriptName && !exec && !noStart && !storybookUrl && !port)
buildInsteadOfStart(opts) ==
  /\ ~Truthy(opts.scriptName)
  /\ ~Truthy(opts.exec)
  /\ ~Truthy(noStartAfterUrl(opts))
  /\ ~Truthy(opts.storybookUrl)
  /\ ~Truthy(opts.port)

\* buildScriptNameOf that ignores the flag
buildScriptNameOf_DefaultOnly(opts) == Str(<<"build-storybook">>)

\* the name of the build script: the flag when it is a string
buildScriptNameOf(opts) ==
  IF IsString(opts.buildScriptName) THEN opts.buildScriptName ELSE Str(<<"build-storybook">>)

\* "Build Storybook instead of starting it"
buildStorybook(opts, pkg) ==
  IF Truthy(opts.storybookBuildDir)
    THEN Return([opts EXCEPT !.noStart = Bool(TRUE)])
    ELSE LET buildScriptName == buildScriptNameOf(opts)
         IN  IF Truthy(scriptOf(pkg, buildScriptName))
               THEN Return([opts EXCEPT !.noStart = Bool(TRUE),
                                        !.buildScriptName = buildScriptName])
               ELSE Throw("MissingBuildScriptName", buildScriptName)

\* looksUpScript that trusts a port of the caller even when a start is needed
looksUpScript_NoPortOnly(opts) ==
  ~Truthy(opts.exec) /\ ~Truthy(opts.port)

\* if (!exec && (!port || !noStart)): the script is looked up
looksUpScript(opts) ==
  ~Truthy(opts.exec) /\ (~Truthy(opts.port) \/ ~Truthy(noStartAfterUrl(opts)))

\* the name of the start script: the flag when it is a string
scriptNameOf(opts) ==
  IF IsString(opts.scriptName) THEN opts.scriptName ELSE Str(<<"storybook">>)

\* inferredHttps that prefers what the script says
inferredHttps_ScriptFirst(opts, storybookScript) ==
  Or(And(getStorybookConfiguration(storybookScript, "--https", NoName),
         [ t |-> "object",
           cert |-> resolveHomeDir(getStorybookConfiguration(storybookScript, "--ssl-cert", NoName)),
           key |-> resolveHomeDir(getStorybookConfiguration(storybookScript, "--ssl-key", NoName)),
           ca |-> resolveHomeDir(getStorybookConfiguration(storybookScript, "--ssl-ca", NoName)) ]),
     callerHttps(opts))

\* https = https || (--https of the script && { cert, key, ca of the script })
inferredHttps(opts, storybookScript) ==
  Or(callerHttps(opts),
     And(getStorybookConfiguration(storybookScript, "--https", NoName),
         [ t |-> "object",
           cert |-> resolveHomeDir(getStorybookConfiguration(storybookScript, "--ssl-cert", NoName)),
           key |-> resolveHomeDir(getStorybookConfiguration(storybookScript, "--ssl-key", NoName)),
           ca |-> resolveHomeDir(getStorybookConfiguration(storybookScript, "--ssl-ca", NoName)) ]))

\* port = port || the -p / --port of the script
inferredPort(opts, storybookScript) ==
  Or(opts.port, getStorybookConfiguration(storybookScript, "-p", "--port"))

\* localhostUrl that is always https
localhostUrl_AlwaysHttps(https, port) ==
  Str(<<"https:", "//", "localhost", ":">> \o port.s)

\* `${https ? 'https' : 'http'}://localhost:${port}`
localhostUrl(https, port) ==
  Str(<<IF Truthy(https) THEN "https:" ELSE "http:", "//", "localhost", ":">> \o port.s)

\* what the part of getOptions before the url is finalized leaves in its
\* local variables
Locals(https, port, scriptName, storybookUrl) ==
  [kind |-> "none", https |-> https, port |-> port, scriptName |-> scriptName,
   storybookUrl |-> storybookUrl]

\* "Start Storybook on localhost and generate the URL to it"
startStorybook(opts, pkg) ==
  IF Truthy(opts.exec) /\ ~Truthy(opts.port)
    THEN Throw("MissingStorybookPort", Undefined)
  ELSE IF looksUpScript(opts)
    THEN LET scriptName == scriptNameOf(opts)
             storybookScript == scriptOf(pkg, scriptName)
         IN  IF ~Truthy(storybookScript)
               THEN Throw("MissingScriptName", scriptName)
               ELSE LET https == inferredHttps(opts, storybookScript)
                        port == inferredPort(opts, storybookScript)
                    IN  IF ~Truthy(port)
                          THEN Throw("UnknownStorybookPort", scriptName)
                          ELSE Locals(https, port, scriptName, localhostUrl(https, port))
  ELSE Locals(callerHttps(opts), opts.port, opts.scriptName,
              localhostUrl(callerHttps(opts), opts.port))

suffix == "iframe.html"

\* String.prototype.endsWith, for a suffix that is one lexeme
endsWith(s, lexeme) == Len(s) > 0 /\ s[Len(s)] = lexeme

\* withSuffix that appends without looking
withSuffix_AlwaysAppend(pathname) ==
  (IF ~endsWith(pathname, "/") THEN pathname \o <<"/">> ELSE pathname) \o <<suffix>>

\* the pathname once the suffix has been seen to
withSuffix(pathname) ==
  IF ~endsWith(pathname, suffix)
    THEN (IF ~endsWith(pathname, "/") THEN pathname \o <<"/">> ELSE pathname) \o <<suffix>>
    ELSE pathname

\* parse(storybookUrl), the suffix, parsedUrl.format(): a TypeError when
\* storybookUrl is no string or has no pathname
finalUrl(storybookUrl) ==
  IF ~IsString(storybookUrl) THEN Throw("TypeError", Undefined)
  ELSE LET parsedUrl == parse(storybookUrl.s)
       IN  IF parsedUrl.pathname = Null THEN Throw("TypeError", Undefined)
           ELSE Return(format([parsedUrl EXCEPT !.pathname = Str(withSuffix(parsedUrl.pathname.s))]))

getOptions(fl, pkg, env) ==
  LET opts == options(fl, env)
      invalid == validate(fl, opts)
  IN  IF invalid # NoError THEN invalid
      ELSE IF buildInsteadOfStart(opts) THEN buildStorybook(opts, pkg)
      ELSE LET locals == IF ~Truthy(opts.storybookUrl)
                           THEN startStorybook(opts, pkg)
                           ELSE Locals(callerHttps(opts), opts.port, opts.scriptName,
                                       opts.storybookUrl)
           IN  IF locals.kind = "throw" THEN locals
               ELSE LET url == finalUrl(locals.storybookUrl)
                    IN  IF url.kind = "throw" THEN url
                        ELSE Return([opts EXCEPT !.noStart = noStartAfterUrl(opts),
                                                 !.https = locals.https,
                                                 !.url = url.value,
                                                 !.scriptName = locals.scriptName])

---------------------------------------------------------------------------
(* The inputs of a call *)

FlagNames ==
  { "projectToken", "appCode", "patchBuild", "exitOnceUploaded", "buildScriptName",
    "scriptName", "exec", "doNotStart", "storybookHttps", "storybookCert",
    "storybookKey", "storybookCa", "storybookPort", "storybookUrl",
    "storybookBuildDir" }

Localhost6006 == <<"http:", "//", "localhost", ":", "6006">>

\* the values --storybook-url takes: '' is the flag given without a value
StorybookUrls ==
  { Str(<<>>),
    Str(Localhost6006),
    Str(Localhost6006 \o <<"/", "iframe.html">>),
    Str(<<"HTTP:", "//", "LOCALHOST", ":", "6006", "/", "iframe.html">>),
    Str(Localhost6006 \o <<"/", "a">>),
    Str(Localhost6006 \o <<"/", "a", "/">>),
    Str(Localhost6006 \o <<"?x">>),
    Str(<<"?x">>) }

\* the values the flags parser hands over for each flag, besides undefined
FlagValues ==
  [ projectToken |-> {Str(<<"tok">>), Arr(<<Str(<<"t1">>), Str(<<"t2">>)>>)},
    appCode |-> {Str(<<"code">>)},
    patchBuild |-> {Str(<<>>), Str(<<"a">>), Str(<<"a", "...", "a">>), Str(<<"a", "...", "b">>)},
    exitOnceUploaded |-> {Str(<<>>), Bool(TRUE)},
    buildScriptName |-> {Str(<<>>), Str(<<"build">>)},
    scriptName |-> {Str(<<>>), Str(<<"sb">>)},
    exec |-> {Str(<<"serve">>)},
    doNotStart |-> {Bool(TRUE)},
    storybookHttps |-> {Bool(TRUE)},
    storybookCert |-> {Str(<<"caller.crt">>)},
    storybookKey |-> {Str(<<"caller.key">>)},
    storybookCa |-> {Str(<<"caller.ca">>)},
    storybookPort |-> {Str(<<"7007">>)},
    storybookUrl |-> StorybookUrls,
    storybookBuildDir |-> {Str(<<"out">>), Arr(<<Str(<<"d1">>), Str(<<"d2">>)>>)} ]

NoFlags == [name \in FlagNames |-> Undefined]

\* a command line, word by word
Command(words) == Str([i \in 1..Len(words) |-> <<words[i]>>])

Scripts(m) == [scripts |-> [t |-> "object", m |-> m]]

\* the package.json files a call may read: without scripts, with a start
\* script only, with TLS switches, with custom names, with empty commands
Manifests ==
  { [scripts |-> Undefined],
    Scripts(<<"storybook">> :> Command(<<"start-storybook", "-p", "9009">>)),
    Scripts(<<"storybook">> :>
              Str(<< <<"start-storybook">>, <<"--port">>, <<"9009">>, <<"--https">>,
                     <<"--ssl-cert">>, <<"~", "/s.crt">>, <<"--ssl-key">>, <<"s.key">>,
                     <<"--ssl-ca">>, <<"s.ca">> >>)
            @@ <<"build-storybook">> :> Command(<<"build-storybook">>)),
    Scripts(<<"storybook">> :> Command(<<"start-storybook">>)
            @@ <<"sb">> :> Command(<<"start-storybook", "-p", "9010", "--https">>)
            @@ <<"build">> :> Command(<<"build-storybook", "-o", "out">>)),
    Scripts(<<"storybook">> :> Str(<<>>) @@ <<"build-storybook">> :> Str(<<>>)) }

---------------------------------------------------------------------------
(* The state machine: the caller sets flags, calls getOptions, and may call *)
(* it again with the url of the result as --storybook-url.                  *)

FlagsSet(fl) == {name \in FlagNames : fl[name] # Undefined}

Init ==
  /\ flags = NoFlags
  /\ envToken \in {Undefined, Str(<<"env-tok">>)}
  /\ packageJson = [scripts |-> Undefined]
  /\ normalized = options(NoFlags, Undefined)
  /\ outcome = NoError
  /\ fed = Undefined
  /\ pc = "flags"

\* the command line gives one more flag
SetFlag(name, value) ==
  /\ pc = "flags"
  /\ flags[name] = Undefined
  /\ Cardinality(FlagsSet(flags)) < MaxFlags
  /\ flags' = [flags EXCEPT ![name] = value]
  /\ UNCHANGED <<envToken, packageJson, normalized, outcome, fed, pc>>

\* getOptions({ flags }) with the package.json it reads
Call(pkg) ==
  /\ pc = "flags"
  /\ packageJson' = pkg
  /\ normalized' = options(flags, envToken)
  /\ outcome' = getOptions(flags, pkg, envToken)
  /\ pc' = "done"
  /\ UNCHANGED <<flags, envToken, fed>>

\* the flags of a second call: the url of the result as the only selector
feedBack(fl, url) ==
  [fl EXCEPT !.storybookUrl = url, !.buildScriptName = Undefined,
             !.scriptName = Undefined, !.exec = Undefined,
             !.storybookBuildDir = Undefined]

\* getOptions again, with the resolved url fed back as --storybook-url
Reresolve ==
  /\ pc = "done"
  /\ outcome.kind = "return"
  /\ IsString(outcome.value.url)
  /\ fed' = outcome.value.url
  /\ flags' = feedBack(flags, outcome.value.url)
  /\ normalized' = options(flags', envToken)
  /\ outcome' = getOptions(flags', packageJson, envToken)
  /\ pc' = "refed"
  /\ UNCHANGED <<envToken, packageJson>>

Next ==
  \/ \E name \in FlagNames : \E value \in FlagValues[name] : SetFlag(name, value)
  \/ \E pkg \in Manifests : Call(pkg)
  \/ Reresolve

Spec == Init /\ [][Next]_vars

---------------------------------------------------------------------------
(* Vocabulary of the properties *)

\* getOptions has been called: outcome is what the call on flags ended in
Called == pc \in {"done", "refed"}

\* the normalized options of the call
Opts == normalized

Returned == Called /\ outcome.kind = "return"

Threw(error) == Called /\ outcome.kind = "throw" /\ outcome.error = error

\* the rules of the validation phase, as the specification words them
NoToken == ~Truthy(Opts.projectToken)

PatchBuildGiven == Truthy(flags.patchBuild)

PatchRefsMissing ==
  PatchBuildGiven /\ ~(Truthy(Opts.patchHeadRef) /\ Truthy(Opts.patchBaseRef))

PatchRefsEqual ==
  PatchBuildGiven /\ ~PatchRefsMissing /\ Opts.patchHeadRef = Opts.patchBaseRef

SelectorsSet == {name \in DOMAIN singularOpts : Truthy(Opts[name])}

SeveralSelectors == Cardinality(SelectorsSet) > 1

ExitOnceUploadedRequested == Truthy(Opts.exitOnceUploaded)

ExitOnceUploadedConflict ==
  /\ ExitOnceUploadedRequested
  /\ Truthy(flags.doNotStart) \/ Truthy(Opts.storybookUrl) \/ Truthy(Opts.scriptName)

\* the error of the earliest violated rule, "" when no rule is violated
EarliestViolation ==
  IF NoToken THEN "MissingProjectToken"
  ELSE IF PatchRefsMissing THEN "InvalidPatchBuild"
  ELSE IF PatchRefsEqual THEN "DuplicatePatchBuild"
  ELSE IF SeveralSelectors THEN "InvalidSingularOptions"
  ELSE IF ExitOnceUploadedConflict THEN "InvalidExitOnceUploaded"
  ELSE ""

PassesValidation == EarliestViolation = ""

ValidationErrors ==
  { "MissingProjectToken", "InvalidPatchBuild", "DuplicatePatchBuild",
    "InvalidSingularOptions", "InvalidExitOnceUploaded" }

ModeErrors ==
  { "MissingBuildScriptName", "MissingScriptName", "MissingStorybookPort",
    "UnknownStorybookPort" }

RulesViolated ==
  Cardinality({r \in { <<1, NoToken>>, <<2, PatchRefsMissing \/ PatchRefsEqual>>,
                       <<3, SeveralSelectors>>, <<4, ExitOnceUploadedConflict>> } : r[2]})

\* name is a script of the package.json that was read: a key of its scripts
\* with a command (an empty command counts as no script)
IsScript(name) ==
  /\ packageJson.scripts # Undefined
  /\ name.s \in DOMAIN packageJson.scripts.m
  /\ packageJson.scripts.m[name.s] # Str(<<>>)

\* 'http://localhost:<port>/iframe.html', or with https
IframeOnLocalhost(protocol, port) ==
  Str(<<protocol, "//", "localhost", ":">> \o port.s \o <<"/", "iframe.html">>)

---------------------------------------------------------------------------
(* C1 *)

\* C1: the validation phase fails fast in the order token, patchBuild,
\* singular selectors, exitOnceUploaded: whenever a call's input violates one
\* or more of these rules, the call throws the error of the earliest violated
\* rule, so none of the mode-selection errors (MissingBuildScriptName,
\* MissingScriptName, MissingStorybookPort, UnknownStorybookPort) is ever
\* thrown for an input that violates a validation rule; and a validation
\* error is thrown only for an input that violates a rule.
C1_ValidationOrder ==
  Called =>
    /\ EarliestViolation # "" => Threw(EarliestViolation)
    /\ outcome.kind = "throw" /\ outcome.error \in ModeErrors => PassesValidation
    /\ outcome.kind = "throw" /\ outcome.error \in ValidationErrors
         => outcome.error = EarliestViolation

\* an input that breaks the patchBuild, selector and exitOnceUploaded rules at
\* once is answered with the patchBuild error
C1_Witness ==
  /\ Threw("InvalidPatchBuild")
  /\ SeveralSelectors
  /\ ExitOnceUploadedConflict

---------------------------------------------------------------------------
(* C2 *)

\* C2: with a token and a valid or absent patchBuild, two or more selectors
\* set make the call throw InvalidSingularOptions, and the labels handed to
\* the error are exactly the labels of all the selectors that are set, each
\* once.
C2_AllConflictingLabels ==
  Called /\ ~NoToken /\ ~PatchRefsMissing /\ ~PatchRefsEqual /\ SeveralSelectors =>
    /\ Threw("InvalidSingularOptions")
    /\ outcome.arg.t = "array"
    /\ Elements(outcome.arg.a) = {singularOpts[name] : name \in SelectorsSet}
    /\ Len(outcome.arg.a) = Cardinality(SelectorsSet)

\* three selectors are set and all three labels are reported
C2_Witness ==
  /\ Threw("InvalidSingularOptions")
  /\ Cardinality(SelectorsSet) = 3
  /\ Len(outcome.arg.a) = 3

---------------------------------------------------------------------------
(* C3 *)

\* the build script name the claim describes: the flag's string value, else
\* the literal 'build-storybook'
BuildName ==
  IF IsString(flags.buildScriptName) THEN flags.buildScriptName
  ELSE Str(<<"build-storybook">>)

NoStartSelector ==
  /\ ~Truthy(Opts.scriptName)
  /\ ~Truthy(Opts.exec)
  /\ ~Truthy(Opts.port)
  /\ ~Truthy(Opts.storybookUrl)

BuildModeOutcome ==
  IF IsScript(BuildName)
    THEN /\ Returned
         /\ outcome.value.noStart = Bool(TRUE)
         /\ outcome.value.buildScriptName = BuildName
    ELSE Threw("MissingBuildScriptName") /\ outcome.arg = BuildName

\* C3 as claimed: a valid input with none of scriptName, exec, port and
\* storybookUrl set and no build directory resolves in build mode: it returns
\* noStart = true and the build script name (the flag's string value, else
\* 'build-storybook') when that name is a script of the manifest, and throws
\* MissingBuildScriptName(name) otherwise.
C3_Original ==
  Called /\ PassesValidation /\ NoStartSelector /\ ~Truthy(Opts.storybookBuildDir)
    => BuildModeOutcome

\* C3 as amended: the same, for the inputs that do not set doNotStart either
\* (with doNotStart the build branch is skipped and start mode looks up the
\* start script).
C3_BuildMode ==
  Called /\ PassesValidation /\ NoStartSelector /\ ~Truthy(Opts.storybookBuildDir)
         /\ ~Truthy(flags.doNotStart)
    => BuildModeOutcome

\* a build script named by the flag is found and returned
C3_Witness ==
  /\ Returned
  /\ PassesValidation /\ NoStartSelector /\ ~Truthy(flags.doNotStart)
  /\ flags.buildScriptName = Str(<<"build">>)
  /\ outcome.value.buildScriptName = Str(<<"build">>)
  /\ outcome.value.noStart = Bool(TRUE)

---------------------------------------------------------------------------
(* C4 *)

\* scripts: { storybook: 'start-storybook -p 9009' }
OnlyStorybookScript ==
  packageJson = Scripts(<<"storybook">> :> Command(<<"start-storybook", "-p", "9009">>))

\* the flags set, besides those that give the token, are among names
OnlyFlags(names) == FlagsSet(flags) \subseteq (names \cup {"projectToken", "appCode"})

\* C4 as claimed: with a token, that manifest and no other flags the call
\* returns a start-mode result with port 9009 and url
\* 'http://localhost:9009/iframe.html'.
C4_Original ==
  Called /\ ~NoToken /\ OnlyStorybookScript /\ OnlyFlags({}) =>
    /\ Returned
    /\ outcome.value.url = IframeOnLocalhost("http:", Str(<<"9009">>))

\* C4 as amended: with a token and that manifest, a call with no other flags
\* takes the build branch and throws MissingBuildScriptName('build-storybook');
\* when start mode is asked for by --script-name without a value or by
\* --do-not-start (and nothing else), the call returns scriptName 'storybook'
\* and url 'http://localhost:9009/iframe.html', the port being used for the
\* url only: the port property of the result stays undefined.
C4_StartFromScript ==
  Called /\ ~NoToken /\ OnlyStorybookScript =>
    /\ OnlyFlags({}) =>
         Threw("MissingBuildScriptName") /\ outcome.arg = Str(<<"build-storybook">>)
    /\ /\ OnlyFlags({"scriptName", "doNotStart"})
       /\ ~OnlyFlags({})
       /\ flags.scriptName \in {Undefined, Str(<<>>)}
       => /\ Returned
          /\ outcome.value.url = IframeOnLocalhost("http:", Str(<<"9009">>))
          /\ outcome.value.scriptName = Str(<<"storybook">>)
          /\ outcome.value.port = Undefined

\* --script-name without a value starts the 'storybook' script on its port
C4_Witness ==
  /\ Returned
  /\ OnlyStorybookScript
  /\ OnlyFlags({"scriptName"})
  /\ flags.scriptName = Str(<<>>)
  /\ outcome.value.url = IframeOnLocalhost("http:", Str(<<"9009">>))

---------------------------------------------------------------------------
(* C5 *)

\* a valid input whose only selector is a string storybookUrl
OnlySelectorIsUrl ==
  /\ Called
  /\ PassesValidation
  /\ IsString(Opts.storybookUrl)
  /\ Truthy(Opts.storybookUrl)

\* u with 'iframe.html' put at the end of its path, after a '/', unless the
\* path ends with it already: written out on the text of u
SpliceSuffix(u) ==
  LET at == FirstIndex(u, SearchLexemes)
      head == SubSeq(u, 1, at - 1)
      tail == SubSeq(u, at, Len(u))
  IN  IF endsWith(head, "iframe.html") THEN u
      ELSE head \o (IF endsWith(head, "/") THEN <<>> ELSE <<"/">>) \o <<"iframe.html">> \o tail

\* u has neither a host nor a path
HasNoPathname(u) ==
  LET head == SubSeq(u, 1, FirstIndex(u, SearchLexemes) - 1)
  IN  \A i \in 1..Len(head) : head[i] \in ProtocolLexemes \cup {"//"}

\* u with its protocol and host in lower case
LowerAuthority(u) ==
  LET at == FirstIndex(u, {"/"} \cup SearchLexemes)
  IN  [i \in 1..Len(u) |-> IF i < at THEN toLowerCase(u[i]) ELSE u[i]]

\* a call with a resolved url fed back as the only selector, valid
FedBack == pc = "refed" /\ PassesValidation

\* C5 as claimed, on the inputs whose u has a host or a path: for a valid
\* input whose only selector is a string storybookUrl u the call returns
\* noStart = true and url = u with 'iframe.html' appended to its pathname, u
\* itself when the pathname ends with it; and a resolved url fed back as
\* storybookUrl resolves to itself.
C5_Original ==
  /\ OnlySelectorIsUrl /\ ~HasNoPathname(flags.storybookUrl.s) =>
       /\ Returned
       /\ outcome.value.noStart = Bool(TRUE)
       /\ outcome.value.url = Str(SpliceSuffix(flags.storybookUrl.s))
  /\ FedBack => Returned /\ outcome.value.url = fed

\* C5 as amended: for such an input, when u has a host or a path, the call
\* returns noStart = true and url = the serialisation of the parsed u, that
\* is u with protocol and host in lower case, with 'iframe.html' appended to
\* its pathname unless the pathname ends with it, so that url = u exactly for
\* a u that is in serialised form and ends with the suffix; when u has
\* neither host nor path the call ends in a TypeError.  A resolved url fed
\* back as storybookUrl resolves to itself.
C5_UrlFinalization ==
  /\ OnlySelectorIsUrl =>
       IF HasNoPathname(flags.storybookUrl.s)
         THEN Threw("TypeError")
         ELSE /\ Returned
              /\ outcome.value.noStart = Bool(TRUE)
              /\ outcome.value.url = Str(SpliceSuffix(LowerAuthority(flags.storybookUrl.s)))
  /\ FedBack => Returned /\ outcome.value.url = fed

\* a resolved url is fed back as the only selector and resolves to itself
C5_Witness ==
  /\ FedBack
  /\ Returned
  /\ outcome.value.url = fed
  /\ fed = IframeOnLocalhost("http:", Str(<<"6006">>))

---------------------------------------------------------------------------
(* C6 *)

\* a valid input that is resolved in start mode: no storybookUrl, and the
\* build / static-directory branch not taken
StartMode ==
  /\ Called
  /\ PassesValidation
  /\ ~Truthy(Opts.storybookUrl)
  /\ ~(NoStartSelector /\ ~Truthy(flags.doNotStart))

\* start mode in which the script is looked up
ScriptInference ==
  /\ StartMode
  /\ ~Truthy(Opts.exec)
  /\ ~Truthy(Opts.port) \/ ~Truthy(flags.doNotStart)

TlsFlags == [cert |-> "storybookCert", key |-> "storybookKey", ca |-> "storybookCa"]

\* the protocol of a resolved url
UrlProtocol == outcome.value.url.s[1]

\* the port of the caller is the port of the url
CallerPortWins ==
  Truthy(flags.storybookPort) =>
    outcome.value.url = IframeOnLocalhost(UrlProtocol, flags.storybookPort)

\* C6 as claimed: in start mode with script inference each of https, cert,
\* key, ca and port that the caller supplied is what the result uses,
\* whichever of the others the caller supplied.
C6_Original ==
  ScriptInference /\ Returned =>
    /\ CallerPortWins
    /\ Truthy(flags.storybookHttps) =>
         Truthy(outcome.value.https) /\ UrlProtocol = "https:"
    /\ \A part \in DOMAIN TlsFlags :
         flags[TlsFlags[part]] # Undefined =>
           /\ outcome.value.https.t = "object"
           /\ outcome.value.https[part] = flags[TlsFlags[part]]

\* the flags without the caller's cert, key and ca
WithoutTlsFiles ==
  [flags EXCEPT !.storybookCert = Undefined, !.storybookKey = Undefined,
                !.storybookCa = Undefined]

\* C6 as amended: in start mode with script inference a port of the caller
\* is the port of the url; when the caller supplied storybookHttps the https
\* object is made of the caller's cert, key and ca alone (undefined where
\* omitted) and the url is https, whatever the script contains; a cert, key
\* or ca supplied without storybookHttps is not used: https is then what the
\* script alone gives.
C6_CallerPrecedence ==
  ScriptInference /\ Returned =>
    /\ CallerPortWins
    /\ Truthy(flags.storybookHttps) =>
         /\ outcome.value.https =
              [ t |-> "object", cert |-> flags.storybookCert,
                key |-> flags.storybookKey, ca |-> flags.storybookCa ]
         /\ UrlProtocol = "https:"
    /\ ~Truthy(flags.storybookHttps) =>
         outcome.value.https =
           getOptions(WithoutTlsFiles, packageJson, envToken).value.https

\* the caller's https and cert win over the --ssl-cert of the script
C6_Witness ==
  /\ ScriptInference
  /\ Returned
  /\ Truthy(flags.storybookHttps)
  /\ flags.storybookCert = Str(<<"caller.crt">>)
  /\ IsScript(Str(<<"storybook">>))
  /\ <<"--ssl-cert">> \in Elements(packageJson.scripts.m[<<"storybook">>].s)
  /\ outcome.value.https.cert = Str(<<"caller.crt">>)

---------------------------------------------------------------------------
(* C7 *)

\* the selectors that are truthy in the returned configuration
ResultSelectors == {name \in DOMAIN singularOpts : Truthy(outcome.value[name])}

\* C7 as claimed: at most one of the five selectors is truthy in every
\* returned configuration, inferred names counted.
C7_Original == Returned => Cardinality(ResultSelectors) <= 1

\* C7 as amended: in every returned configuration at most one of the five
\* selectors as the caller supplied them is truthy; with inferred names
\* counted at most two are, and when two are they are the inferred
\* scriptName 'storybook' next to a buildScriptName or storybookBuildDir of
\* the caller.
C7_SelectorsOfResult ==
  Returned =>
    /\ Cardinality(SelectorsSet) <= 1
    /\ Cardinality(ResultSelectors) <= 2
    /\ Cardinality(ResultSelectors) = 2 =>
         /\ ~Truthy(Opts.scriptName)
         /\ outcome.value.scriptName = Str(<<"storybook">>)
         /\ ResultSelectors \in { {"scriptName", "buildScriptName"},
                                  {"scriptName", "storybookBuildDir"} }

\* an inferred scriptName is returned next to the caller's build directory
C7_Witness ==
  /\ Returned
  /\ ResultSelectors = {"scriptName", "storybookBuildDir"}
  /\ SelectorsSet = {"storybookBuildDir"}

---------------------------------------------------------------------------
(* C8 *)

\* C8: every call returns a configuration or throws one of the nine named
\* errors.
C8_OnlyNamedErrors ==
  Called =>
    \/ outcome.kind = "return"
    \/ outcome.kind = "throw" /\ outcome.error \in ValidationErrors \cup ModeErrors

---------------------------------------------------------------------------
(* C9 *)

\* the flag is on the command line, with or without a value
Given(flag) == flag = Str(<<>>) \/ Truthy(flag)

ExitOnceUploadedClash ==
  /\ Given(flags.exitOnceUploaded)
  /\ Truthy(flags.doNotStart) \/ Given(flags.storybookUrl) \/ Given(flags.scriptName)

\* C9: an input that passes the token, patchBuild and selector checks and
\* asks for exitOnceUploaded together with doNotStart, a storybookUrl or a
\* scriptName makes the call throw InvalidExitOnceUploaded; so no call
\* returns for an input that asks for exitOnceUploaded together with one of
\* these.
C9_ExitOnceUploaded ==
  /\ Called /\ ~NoToken /\ ~PatchRefsMissing /\ ~PatchRefsEqual /\ ~SeveralSelectors
       /\ ExitOnceUploadedClash
       => Threw("InvalidExitOnceUploaded")
  /\ Returned => ~ExitOnceUploadedClash

\* exitOnceUploaded with an explicit script name alone is refused
C9_Witness ==
  /\ Threw("InvalidExitOnceUploaded")
  /\ flags.scriptName = Str(<<"sb">>)
  /\ ~Truthy(flags.doNotStart)
  /\ flags.storybookUrl = Undefined

---------------------------------------------------------------------------
(* C10 *)

\* the name of the start script the claim describes
StartName ==
  IF Truthy(flags.scriptName) /\ IsString(flags.scriptName) THEN flags.scriptName
  ELSE Str(<<"storybook">>)

\* the command has a -p or --port followed by a word
HasPortSwitch(command) ==
  \E i \in 1..(Len(command.s) - 1) : command.s[i] \in {<<"-p">>, <<"--port">>}

\* C10: in start mode the script table is consulted exactly when exec is
\* absent and (port is absent or noStart is false).  Without the lookup (port
\* and doNotStart given, no exec) the call returns, whatever the manifest,
\* url = (https ? 'https' : 'http') + '://localhost:' + port + '/iframe.html'
\* and scriptName as supplied.  With the lookup the name is the scriptName
\* flag's string value, else 'storybook'; a missing script throws
\* MissingScriptName(name), a script without a port (and no port of the
\* caller) throws UnknownStorybookPort(name), and otherwise the call returns
\* with that scriptName.
C10_ScriptLookup ==
  StartMode /\ ~Truthy(Opts.exec) =>
    IF ~Truthy(Opts.port) \/ ~Truthy(flags.doNotStart)
      THEN IF ~IsScript(StartName)
             THEN Threw("MissingScriptName") /\ outcome.arg = StartName
           ELSE IF ~Truthy(Opts.port) /\ ~HasPortSwitch(packageJson.scripts.m[StartName.s])
             THEN Threw("UnknownStorybookPort") /\ outcome.arg = StartName
           ELSE Returned /\ outcome.value.scriptName = StartName
      ELSE /\ Returned
           /\ outcome.value.url =
                IframeOnLocalhost(IF Truthy(flags.storybookHttps) THEN "https:" ELSE "http:",
                                  flags.storybookPort)
           /\ outcome.value.scriptName = Opts.scriptName

\* port and doNotStart with a package.json that has no scripts: no lookup
C10_Witness ==
  /\ StartMode
  /\ Returned
  /\ Truthy(flags.storybookPort)
  /\ Truthy(flags.doNotStart)
  /\ packageJson.scripts = Undefined
  /\ outcome.value.url = IframeOnLocalhost("http:", Str(<<"7007">>))

====
